---- MODULE Spec2Model ----
(***************************************************************************)
(* Model of homegenie_mcp_server.py: the two mock data generators          *)
(* (get_mock_weather_data, get_mock_energy_prices), the two tool handlers  *)
(* that render their reports (get_weather_data, get_energy_prices) and     *)
(* the start-up script (__main__).                                         *)
(*                                                                         *)
(* Python floats are modelled as exact rationals [n, d]; a datetime is the *)
(* number of minutes since 00:00 of day 0; a request payload is a function *)
(* from the field names that were supplied to their values.                *)
(***************************************************************************)
EXTENDS Integers, Sequences, FiniteSets, TLC

VARIABLES
    clock,          \* the wall clock, minutes since 00:00 of day 0
    pc,             \* position of the get_energy_prices call in progress
    ticks,          \* clock ticks seen during the call in progress
    payload,        \* the arguments the client sent with the call
    request,        \* the EnergyRequest of the call
    hour,           \* get_mock_energy_prices: hour
    multiplier,     \* get_mock_energy_prices: multiplier
    period,         \* get_mock_energy_prices: period
    current_price,  \* get_mock_energy_prices: current_price
    base_time,      \* get_mock_energy_prices: base_time
    forecast,       \* get_mock_energy_prices: forecast
    timestamp,      \* get_mock_energy_prices: the "timestamp" entry
    price_data,     \* get_energy_prices: price_data
    result,         \* get_energy_prices: the rendered report
    weather_pc,     \* position of the get_weather_data call in progress
    weather_payload,\* the arguments the client sent with get_weather_data
    weather_request,\* the WeatherRequest of the last get_weather_data call
    weather_data,   \* get_weather_data: weather_data
    weather_result, \* get_weather_data: the rendered report
    environ,        \* os.environ: the variables that are set
    main_pc,        \* position of the __main__ script
    host,           \* __main__: host
    port,           \* __main__: port
    raised,         \* the exception that ended the try body, if any
    output,         \* what the script has logged and printed
    exit_status     \* the exit status of the process

energy_vars == <<clock, pc, ticks, payload, request, hour, multiplier, period, current_price,
                 base_time, forecast, timestamp, price_data, result>>
weather_vars == <<weather_pc, weather_payload, weather_request, weather_data, weather_result>>
main_vars == <<environ, main_pc, host, port, raised, output, exit_status>>
vars == <<energy_vars, weather_vars, main_vars>>

\* A variable that holds no value yet.
NoValue == [none |-> TRUE]

----------------------------------------------------------------------------
(* Floats as exact rationals *)

Rat(n, d) == [n |-> n, d |-> d]

Mul(a, b) == Rat(a.n * b.n, a.d * b.d)

Add(a, b) == Rat(a.n * b.d + b.n * a.d, a.d * b.d)

Sub(a, b) == Rat(a.n * b.d - b.n * a.d, a.d * b.d)

Lt(a, b) == a.n * b.d < b.n * a.d

Gt(a, b) == Lt(b, a)

Le(a, b) == ~Lt(b, a)

Eq(a, b) == a.n * b.d = b.n * a.d

Pow10(k) == IF k = 0 THEN 1 ELSE IF k = 1 THEN 10 ELSE IF k = 2 THEN 100 ELSE 1000

\* The integer nearest to n/d (n >= 0, d > 0), a tie going to the even one.
RoundHalfEven(n, d) ==
    LET q == n \div d
        r == n % d
    IN  IF 2 * r < d THEN q
        ELSE IF 2 * r > d THEN q + 1
        ELSE IF q % 2 = 0 THEN q ELSE q + 1

\* Python's round(x, ndigits): x to ndigits decimal places.
Round(x, ndigits) == Rat(RoundHalfEven(x.n * Pow10(ndigits), x.d), Pow10(ndigits))

----------------------------------------------------------------------------
(* datetime *)

\* datetime.hour
HourOf(t) == (t \div 60) % 24

\* datetime.minute
MinuteOf(t) == t % 60

\* t + timedelta(hours=i)
PlusHours(t, i) == t + i * 60

\* strftime("%H:%M"): the pair <<hour, minute>> stands for the text "HH:MM"
StrfTime(t) == <<HourOf(t), MinuteOf(t)>>

\* strftime("%Y-%m-%d"): the day's ordinal stands for the text of its date
StrfDate(t) == t \div (24 * 60)

----------------------------------------------------------------------------
(* Bounds of the model *)

\* Clock ticks (of one minute) that may fall inside one call.
MaxTicks == 1

\* A call starts on the hour or one minute before the next one.
StartMinutes == {0, 59}

StartTimes == {h * 60 + m : h \in 0..23, m \in StartMinutes}

Regions == {"EU", "UK"}

----------------------------------------------------------------------------
(* Request models *)

EnergyPayloads ==
    {a @@ b : a \in {<<>>} \cup {("region" :> r) : r \in Regions},
              b \in {<<>>} \cup {("include_forecast" :> f) : f \in BOOLEAN}}

\* EnergyRequest: a field that is not supplied takes its default.
EnergyRequest(args) ==
    [region |-> IF "region" \in DOMAIN args THEN args["region"] ELSE "EU",
     include_forecast |-> IF "include_forecast" \in DOMAIN args
                          THEN args["include_forecast"] ELSE TRUE]

----------------------------------------------------------------------------
(* get_mock_energy_prices *)

base_price == Rat(25, 100)

\* The tier of the current hour.
CurrentTier_OffByOne(h) ==
    IF (7 <= h /\ h <= 9) \/ (17 <= h /\ h <= 20)
    THEN [multiplier |-> Rat(18, 10), period |-> "peak"]
    ELSE IF h >= 22 \/ h < 6
    THEN [multiplier |-> Rat(7, 10), period |-> "off_peak"]
    ELSE [multiplier |-> Rat(10, 10), period |-> "standard"]

CurrentTier(h) ==
    IF (7 <= h /\ h <= 9) \/ (17 <= h /\ h <= 20)
    THEN [multiplier |-> Rat(18, 10), period |-> "peak"]
    ELSE IF h >= 22 \/ h <= 6
    THEN [multiplier |-> Rat(7, 10), period |-> "off_peak"]
    ELSE [multiplier |-> Rat(10, 10), period |-> "standard"]

\* The tier of a forecast entry's hour.
ForecastTier(f_hour) ==
    IF (7 <= f_hour /\ f_hour <= 9) \/ (17 <= f_hour /\ f_hour <= 20)
    THEN [f_multiplier |-> Rat(18, 10), f_period |-> "peak"]
    ELSE IF f_hour >= 22 \/ f_hour <= 6
    THEN [f_multiplier |-> Rat(7, 10), f_period |-> "off_peak"]
    ELSE [f_multiplier |-> Rat(10, 10), f_period |-> "standard"]

CurrentPrice_TwoDigits(m) == Round(Mul(base_price, m), 2)

CurrentPrice(m) == Round(Mul(base_price, m), 3)

ForecastLength == 24

\* One entry of the forecast: the body of the loop for index i of range(24).
ForecastEntry(base, i) ==
    LET time == PlusHours(base, i)
        tier == ForecastTier(HourOf(time))
    IN  [time |-> StrfTime(time),
         date |-> StrfDate(time),
         price_per_kwh |-> Round(Mul(base_price, tier.f_multiplier), 3),
         period |-> tier.f_period]

\* The list the loop builds; position i + 1 holds the entry of index i.
BuildForecast_FromNextHour(base) == [k \in 1..ForecastLength |-> ForecastEntry(base, k)]

BuildForecast(base) == [k \in 1..ForecastLength |-> ForecastEntry(base, k - 1)]

PriceData(region) ==
    [region |-> region,
     timestamp |-> timestamp,
     current_price |-> [price_per_kwh |-> current_price,
                        currency |-> "EUR",
                        period |-> period,
                        unit |-> "kWh"],
     price_forecast |-> forecast,
     market_info |-> [market |-> "Day Ahead",
                      source |-> "Energy Exchange",
                      last_updated |-> clock]]

----------------------------------------------------------------------------
(* get_energy_prices: the report *)

\* period.replace('_', ' ').title()
PeriodTitle(p) ==
    CASE p = "peak" -> "Peak"
      [] p = "off_peak" -> "Off Peak"
      [] p = "standard" -> "Standard"

CostImpact_WrongThreshold(price) ==
    IF Gt(price, Rat(45, 100)) THEN "High cost - consider energy saving"
    ELSE IF Gt(price, Rat(20, 100)) THEN "Standard cost"
    ELSE "Low cost - good time for energy-intensive tasks"

CostImpact(price) ==
    IF Gt(price, Rat(35, 100)) THEN "High cost - consider energy saving"
    ELSE IF Gt(price, Rat(20, 100)) THEN "Standard cost"
    ELSE "Low cost - good time for energy-intensive tasks"

SmartActions(p) ==
    IF p = "peak" THEN "Delay washing/heating"
    ELSE IF p = "off_peak" THEN "Good time for appliances"
    ELSE "Normal usage"

ForecastShown == 8

\* seq[:n]
Take(seq, n) == SubSeq(seq, 1, IF n < Len(seq) THEN n ELSE Len(seq))

ForecastLine(hour_data) ==
    [time |-> hour_data.time,
     price_per_kwh |-> hour_data.price_per_kwh,
     period |-> hour_data.period]

\* The forecast section of the report: its header and its lines.
ForecastSection_Unconditional(req, data) ==
    LET shown == Take(data.price_forecast, ForecastShown)
    IN  [header |-> <<"Next 8 Hours Forecast:">>,
         lines |-> [k \in 1..Len(shown) |-> ForecastLine(shown[k])]]

ForecastSection(req, data) ==
    IF req.include_forecast
    THEN LET shown == Take(data.price_forecast, ForecastShown)
         IN  [header |-> <<"Next 8 Hours Forecast:">>,
              lines |-> [k \in 1..Len(shown) |-> ForecastLine(shown[k])]]
    ELSE [header |-> <<>>, lines |-> <<>>]

EnergyReport(req, data) ==
    LET current == data.current_price
    IN  [region |-> req.region,
         price |-> current.price_per_kwh,
         period |-> PeriodTitle(current.period),
         currency |-> current.currency,
         last_updated |-> data.timestamp,
         period_type |-> PeriodTitle(current.period),
         cost_impact |-> CostImpact(current.price_per_kwh),
         smart_actions |-> SmartActions(current.period),
         forecast |-> ForecastSection(req, data),
         raw_data |-> data]

----------------------------------------------------------------------------
(* The steps of one get_energy_prices call.  get_mock_energy_prices reads   *)
(* the clock four times; the clock may advance between two reads.          *)

EnergyIdle ==
    /\ pc = "idle"
    /\ ticks = 0
    /\ payload = <<>>
    /\ request = NoValue
    /\ hour = -1
    /\ multiplier = NoValue
    /\ period = ""
    /\ current_price = NoValue
    /\ base_time = -1
    /\ forecast = <<>>
    /\ timestamp = -1

EnergyInit(starts) ==
    /\ clock \in starts
    /\ EnergyIdle
    /\ price_data = NoValue
    /\ result = NoValue

\* A client calls get_energy_prices at some time of day.
CallEnergyPrices(args, now) ==
    /\ pc = "idle"
    /\ pc' = "read_hour"
    /\ clock' = now
    /\ ticks' = 0
    /\ payload' = args
    /\ request' = EnergyRequest(args)
    /\ hour' = -1
    /\ multiplier' = NoValue
    /\ period' = ""
    /\ current_price' = NoValue
    /\ base_time' = -1
    /\ forecast' = <<>>
    /\ timestamp' = -1
    /\ price_data' = NoValue
    /\ result' = NoValue
    /\ UNCHANGED <<weather_vars, main_vars>>

\* hour = datetime.now().hour, then the tier and the price of that hour.
ReadHour ==
    /\ pc = "read_hour"
    /\ pc' = "read_base_time"
    /\ hour' = HourOf(clock)
    /\ multiplier' = CurrentTier(hour').multiplier
    /\ period' = CurrentTier(hour').period
    /\ current_price' = CurrentPrice(multiplier')
    /\ UNCHANGED <<clock, ticks, payload, request, base_time, forecast, timestamp,
                   price_data, result, weather_vars, main_vars>>

\* base_time = datetime.now(), then the loop that fills the forecast.
ReadBaseTime ==
    /\ pc = "read_base_time"
    /\ pc' = "read_timestamp"
    /\ base_time' = clock
    /\ forecast' = BuildForecast(base_time')
    /\ UNCHANGED <<clock, ticks, payload, request, hour, multiplier, period, current_price,
                   timestamp, price_data, result, weather_vars, main_vars>>

\* "timestamp": datetime.now().isoformat()
ReadTimestamp ==
    /\ pc = "read_timestamp"
    /\ pc' = "read_last_updated"
    /\ timestamp' = clock
    /\ UNCHANGED <<clock, ticks, payload, request, hour, multiplier, period, current_price,
                   base_time, forecast, price_data, result, weather_vars, main_vars>>

\* "last_updated": datetime.now().isoformat(); get_mock_energy_prices returns
\* and get_energy_prices renders the report.
ReturnEnergyPrices ==
    /\ pc = "read_last_updated"
    /\ pc' = "idle"
    /\ price_data' = PriceData(request.region)
    /\ result' = EnergyReport(request, price_data')
    /\ UNCHANGED <<clock, ticks, payload, request, hour, multiplier, period, current_price,
                   base_time, forecast, timestamp, weather_vars, main_vars>>

\* The wall clock advances by a minute while the call is in progress.
Tick ==
    /\ pc # "idle"
    /\ ticks < MaxTicks
    /\ clock' = clock + 1
    /\ ticks' = ticks + 1
    /\ UNCHANGED <<pc, payload, request, hour, multiplier, period, current_price, base_time,
                   forecast, timestamp, price_data, result, weather_vars, main_vars>>

----------------------------------------------------------------------------
(* The random module *)

\* random.random() returns k / RandDen for some k in 0..RandDen-1.
RandDen == 256

RandomNumerators == 0..(RandDen - 1)

\* random.uniform(a, b) = a + (b - a) * random.random()
Uniform(a, b, k) == Add(a, Mul(Sub(b, a), Rat(k, RandDen)))

\* random.randint(a, b) returns one of a..b, both ends included.
RandInt(a, b) == a..b

----------------------------------------------------------------------------
(* get_mock_weather_data *)

conditions == {"clear sky", "few clouds", "scattered clouds", "light rain"}

MainConditions == {"Clear", "Clouds", "Rain"}

\* The outcomes of the random draws of one call, each field drawn on its own.
LowDraw ==
    [temp |-> 0, feels_like |-> 0, speed |-> 0, humidity |-> 40, pressure |-> 1000,
     main |-> "Clear", description |-> "clear sky"]

HighDraw ==
    [temp |-> RandDen - 1, feels_like |-> RandDen - 1, speed |-> RandDen - 1,
     humidity |-> 80, pressure |-> 1020, main |-> "Rain", description |-> "light rain"]

BaseDraws == {LowDraw, HighDraw}

\* Every value of every draw, the other draws of the call being at either end
\* of their ranges.
WeatherDraws ==
    UNION {   {[b EXCEPT !.temp = k] : k \in RandomNumerators}
         \cup {[b EXCEPT !.feels_like = k] : k \in RandomNumerators}
         \cup {[b EXCEPT !.speed = k] : k \in RandomNumerators}
         \cup {[b EXCEPT !.humidity = v] : v \in RandInt(40, 80)}
         \cup {[b EXCEPT !.pressure = v] : v \in RandInt(1000, 1020)}
         \cup {[b EXCEPT !.main = v] : v \in MainConditions}
         \cup {[b EXCEPT !.description = v] : v \in conditions}
         : b \in BaseDraws}

MockTemp_FeelsLikeRange(k) == Round(Uniform(Rat(14, 1), Rat(26, 1), k), 1)

MockTemp(k) == Round(Uniform(Rat(15, 1), Rat(25, 1), k), 1)

MockFeelsLike(k) == Round(Uniform(Rat(14, 1), Rat(26, 1), k), 1)

MockWindSpeed(k) == Round(Uniform(Rat(1, 1), Rat(10, 1), k), 1)

\* The dictionary get_mock_weather_data returns.  Its "dt" and "sys" entries,
\* which hold clock readings, are left out.
MockWeatherData(location, draw) ==
    [name |-> location,
     main |-> [temp |-> MockTemp(draw.temp),
               feels_like |-> MockFeelsLike(draw.feels_like),
               humidity |-> draw.humidity,
               pressure |-> draw.pressure],
     weather |-> <<[main |-> draw.main,
                    description |-> draw.description,
                    icon |-> "01d"]>>,
     wind |-> [speed |-> MockWindSpeed(draw.speed)]]

----------------------------------------------------------------------------
(* get_weather_data *)

Locations == {"", "London", "Paris"}

WeatherPayloads == {<<>>} \cup {("location" :> l) : l \in Locations}

\* A request that takes the default location also when the location is empty.
WeatherRequest_EmptyIsDefault(args) ==
    [location |-> IF "location" \in DOMAIN args /\ args["location"] # ""
                  THEN args["location"] ELSE "London"]

\* WeatherRequest: a location that is not supplied takes the default.
WeatherRequest(args) ==
    [location |-> IF "location" \in DOMAIN args THEN args["location"] ELSE "London"]

\* description.title()
DescriptionTitle(description) ==
    CASE description = "clear sky" -> "Clear Sky"
      [] description = "few clouds" -> "Few Clouds"
      [] description = "scattered clouds" -> "Scattered Clouds"
      [] description = "light rain" -> "Light Rain"

\* word in description, for the two words looked for and the four descriptions
Contains(description, word) ==
    CASE word = "cloud" -> description \in {"few clouds", "scattered clouds"}
      [] word = "rain" -> description \in {"light rain"}

HeatingRecommendation_Inclusive(temp) ==
    IF Le(temp, Rat(18, 1)) THEN "Increase"
    ELSE IF Lt(temp, Rat(22, 1)) THEN "Maintain"
    ELSE "Decrease"

HeatingRecommendation(temp) ==
    IF Lt(temp, Rat(18, 1)) THEN "Increase"
    ELSE IF Lt(temp, Rat(22, 1)) THEN "Maintain"
    ELSE "Decrease"

NaturalLighting(description) ==
    IF Contains(description, "cloud") \/ Contains(description, "rain")
    THEN "Low - consider increasing indoor lighting"
    ELSE "Good"

WindowManagement(description) ==
    IF Contains(description, "rain") THEN "Close windows" ELSE "Consider ventilation"

WeatherReport(data) ==
    LET temp == data.main.temp
        description == data.weather[1].description
    IN  [location |-> data.name,
         temperature |-> temp,
         description |-> DescriptionTitle(description),
         humidity |-> data.main.humidity,
         wind_speed |-> data.wind.speed,
         pressure |-> data.main.pressure,
         heating |-> HeatingRecommendation(temp),
         lighting |-> NaturalLighting(description),
         windows |-> WindowManagement(description),
         raw_data |-> data]

WeatherInit ==
    /\ weather_pc = "idle"
    /\ weather_payload = <<>>
    /\ weather_request = NoValue
    /\ weather_data = NoValue
    /\ weather_result = NoValue

\* A client calls get_weather_data: the request model is built from the
\* arguments.
CallWeatherData(args) ==
    /\ weather_pc = "idle"
    /\ weather_pc' = "called"
    /\ weather_payload' = args
    /\ weather_request' = WeatherRequest(args)
    /\ weather_data' = NoValue
    /\ weather_result' = NoValue
    /\ UNCHANGED <<energy_vars, main_vars>>

\* The body of get_weather_data.
GetWeatherData(draw) ==
    /\ weather_pc = "called"
    /\ weather_pc' = "idle"
    /\ weather_data' = MockWeatherData(weather_request.location, draw)
    /\ UNCHANGED <<weather_payload, weather_request>>
    /\ weather_result' = WeatherReport(weather_data')
    /\ UNCHANGED <<energy_vars, main_vars>>

----------------------------------------------------------------------------
(* __main__ *)

Hosts == {"127.0.0.1", "0.0.0.0"}

\* Values of PORT, as sequences of characters.
PortTexts == {<<"8", "0", "8", "0">>, <<"8", "0">>, <<"a", "b", "c">>, <<>>}

ProductionTexts == {"", "1"}

Environments ==
    {a @@ b @@ c : a \in {<<>>} \cup {("HOST" :> v) : v \in Hosts},
                   b \in {<<>>} \cup {("PORT" :> v) : v \in PortTexts},
                   c \in {<<>>} \cup {("PRODUCTION" :> v) : v \in ProductionTexts}}

\* os.getenv(name, default)
Getenv(name, default) == IF name \in DOMAIN environ THEN environ[name] ELSE default

Digits == <<"0", "1", "2", "3", "4", "5", "6", "7", "8", "9">>

IsDigit(c) == \E v \in 1..Len(Digits) : Digits[v] = c

DigitValue(c) == (CHOOSE v \in 1..Len(Digits) : Digits[v] = c) - 1

\* int(text) succeeds on a non-empty sequence of digits.
IsIntText(text) == Len(text) > 0 /\ \A k \in 1..Len(text) : IsDigit(text[k])

RECURSIVE IntOfText(_)
IntOfText(text) ==
    IF Len(text) = 0 THEN 0
    ELSE 10 * IntOfText(SubSeq(text, 1, Len(text) - 1)) + DigitValue(text[Len(text)])

MainInit(environments) ==
    /\ environ \in environments
    /\ main_pc = "start"
    /\ host = ""
    /\ port = -1
    /\ raised = "none"
    /\ output = <<>>
    /\ exit_status = -1

\* host and port are read before the try statement: int() of a PORT that is
\* no number raises ValueError, which nothing catches.
ReadEnvironment ==
    /\ main_pc = "start"
    /\ host' = Getenv("HOST", "127.0.0.1")
    /\ IF "PORT" \in DOMAIN environ /\ ~IsIntText(environ["PORT"])
       THEN /\ raised' = "ValueError"
            /\ main_pc' = "exited"
            /\ exit_status' = 1
            /\ output' = Append(output, "traceback")
            /\ port' = port
       ELSE /\ port' = IF "PORT" \in DOMAIN environ THEN IntOfText(environ["PORT"]) ELSE 8000
            /\ output' = Append(output, "log: starting server")
            /\ main_pc' = "try"
            /\ UNCHANGED <<raised, exit_status>>
    /\ UNCHANGED <<environ, energy_vars, weather_vars>>

\* The try body: the HTTP server or the stdio server is started.
StartServer ==
    /\ main_pc = "try"
    /\ main_pc' = IF host = "0.0.0.0" \/ Getenv("PRODUCTION", "") # ""
                  THEN "uvicorn.run" ELSE "mcp.run"
    /\ UNCHANGED <<environ, host, port, raised, output, exit_status,
                   energy_vars, weather_vars>>

ServerOutcomes == {"return", "KeyboardInterrupt", "Exception"}

\* The server returns or raises.
ServerEnds(outcome) ==
    /\ main_pc \in {"uvicorn.run", "mcp.run"}
    /\ main_pc' = "except"
    /\ raised' = IF outcome = "return" THEN "none" ELSE outcome
    /\ UNCHANGED <<environ, host, port, output, exit_status, energy_vars, weather_vars>>

\* The except clauses, after which the script ends.
HandleOutcome ==
    /\ main_pc = "except"
    /\ main_pc' = "exited"
    /\ output' = CASE raised = "KeyboardInterrupt" ->
                          Append(output, "log: Server stopped by user")
                   [] raised = "Exception" ->
                          output \o <<"log: Server error", "Error starting server",
                                      "For production, set HOST=0.0.0.0 environment variable">>
                   [] OTHER -> output
    /\ exit_status' = 0
    /\ UNCHANGED <<environ, host, port, raised, energy_vars, weather_vars>>

----------------------------------------------------------------------------
(* Specifications *)

EnergyStep(starts) ==
    \/ \E args \in EnergyPayloads, now \in starts : CallEnergyPrices(args, now)
    \/ ReadHour
    \/ ReadBaseTime
    \/ ReadTimestamp
    \/ ReturnEnergyPrices
    \/ Tick

WeatherStep(draws) ==
    \/ \E args \in WeatherPayloads : CallWeatherData(args)
    \/ \E draw \in draws : GetWeatherData(draw)

MainStep ==
    \/ ReadEnvironment
    \/ StartServer
    \/ \E outcome \in ServerOutcomes : ServerEnds(outcome)
    \/ HandleOutcome

\* The energy tool, called at any start time.
EnergyNext == EnergyStep(StartTimes)

EnergySpecInit == EnergyInit(StartTimes) /\ WeatherInit /\ MainInit({<<>>})

SpecEnergy == EnergySpecInit /\ [][EnergyNext]_vars

\* The weather tool, with every outcome of every draw.
WeatherNext == WeatherStep(WeatherDraws)

WeatherSpecInit == EnergyInit({0}) /\ WeatherInit /\ MainInit({<<>>})

SpecWeather == WeatherSpecInit /\ [][WeatherNext]_vars

\* Both tools, the draws and the clock taken from the ends of their ranges.
ToolStartTimes == {8 * 60, 23 * 60 + 59}

ToolsNext == EnergyStep(ToolStartTimes) \/ WeatherStep(BaseDraws)

ToolsSpecInit == EnergyInit(ToolStartTimes) /\ WeatherInit /\ MainInit({<<>>})

SpecTools == ToolsSpecInit /\ [][ToolsNext]_vars

\* The start-up script under every environment.
MainNext == MainStep

MainSpecInit == EnergyInit({0}) /\ WeatherInit /\ MainInit(Environments)

SpecMain == MainSpecInit /\ [][MainNext]_vars

----------------------------------------------------------------------------
(* The pricing table of the specification, by hour of day *)

PeakHours == (7..9) \cup (17..20)

OffPeakHours == (22..23) \cup (0..6)

StandardHours == (10..16) \cup {21}

TablePeriod(h) ==
    IF h \in PeakHours THEN "peak"
    ELSE IF h \in OffPeakHours THEN "off_peak"
    ELSE "standard"

TableMultiplier(h) ==
    IF h \in PeakHours THEN Rat(18, 10)
    ELSE IF h \in OffPeakHours THEN Rat(7, 10)
    ELSE Rat(1, 1)

\* round(0.25 x multiplier, 3): 0.45, 0.175 and 0.25
TablePrice(h) ==
    IF h \in PeakHours THEN Rat(45, 100)
    ELSE IF h \in OffPeakHours THEN Rat(175, 1000)
    ELSE Rat(25, 100)

\* The hour of day a forecast entry shows in its "time".
EntryHour(entry) == entry.time[1]

----------------------------------------------------------------------------
(* Properties *)

\* C1: for every hour of day 0..23, the tier of the current-price branch and the
\* tier of every forecast entry is one of peak, off_peak, standard and is the
\* one the table gives: peak (1.8) for 7..9 and 17..20, off_peak (0.7) for
\* 22..23 and 0..6, standard (1.0) for 10..16 and 21; every hour lies in
\* exactly one of the three ranges.
C1_TierMatchesTable ==
    /\ \A h \in 0..23 :
          Cardinality({S \in {PeakHours, OffPeakHours, StandardHours} : h \in S}) = 1
    /\ hour # -1 =>
          /\ hour \in 0..23
          /\ period \in {"peak", "off_peak", "standard"}
          /\ period = TablePeriod(hour)
          /\ Eq(multiplier, TableMultiplier(hour))
          /\ hour \in StandardHours <=> period = "standard"
    /\ \A k \in DOMAIN forecast :
          /\ EntryHour(forecast[k]) \in 0..23
          /\ forecast[k].period \in {"peak", "off_peak", "standard"}
          /\ forecast[k].period = TablePeriod(EntryHour(forecast[k]))
          /\ Eq(forecast[k].price_per_kwh,
                Round(Mul(Rat(25, 100), TableMultiplier(EntryHour(forecast[k]))), 3))

\* The current hour is the boundary hour 6 (off_peak) and the forecast, built
\* in the same hour, has reached the standard hour 21.
C1_Witness ==
    /\ hour = 6 /\ period = "off_peak"
    /\ Len(forecast) = 24
    /\ EntryHour(forecast[1]) = 6
    /\ forecast[16].period = "standard" /\ EntryHour(forecast[16]) = 21

\* C2: the forecast has exactly 24 entries; entry i is the base time of the
\* forecast plus i hours, an hour after entry i - 1, entries past midnight
\* carrying the next date; entry 0 shows the hour the forecast is built in;
\* the period and price of an entry are those of its own hour of day.  Built
\* at 08:00, entry 0 shows "08:00" and peak, entry 14 (22:00) off_peak.
C2_ForecastShape ==
    forecast # <<>> =>
        /\ Len(forecast) = 24
        /\ \A i \in 0..23 :
              LET entry == forecast[i + 1]
                  h == ((base_time \div 60) % 24) + i
              IN  /\ entry.time = <<h % 24, base_time % 60>>
                  /\ entry.date = (base_time \div 1440) + (IF h >= 24 THEN 1 ELSE 0)
                  /\ entry.period = TablePeriod(h % 24)
                  /\ Eq(entry.price_per_kwh, TablePrice(h % 24))
        /\ \A i \in 1..23 :
              EntryHour(forecast[i + 1]) = (EntryHour(forecast[i]) + 1) % 24
        /\ EntryHour(forecast[1]) = HourOf(base_time)
        /\ base_time = 8 * 60 =>
              /\ forecast[1].time = <<8, 0>>
              /\ forecast[1].period = "peak"
              /\ forecast[15].time = <<22, 0>>
              /\ forecast[15].period = "off_peak"

\* A forecast built at 08:00: entry 14 is 22:00, entry 16 is 00:00 of the
\* next date.
C2_Witness ==
    /\ base_time = 8 * 60
    /\ Len(forecast) = 24
    /\ forecast[15].time = <<22, 0>>
    /\ forecast[17].time = <<0, 0>> /\ forecast[17].date = forecast[1].date + 1

\* C3: current_price.price_per_kwh is round(0.25 x multiplier(hour), 3): 0.45
\* in a peak hour, 0.175 in an off_peak hour, 0.25 in a standard hour; its
\* period is the tier label of the hour and its currency "EUR".
C3_CurrentPrice ==
    price_data # NoValue =>
        /\ Eq(price_data.current_price.price_per_kwh, TablePrice(hour))
        /\ price_data.current_price.price_per_kwh.d = 1000
        /\ hour = 8 => Eq(price_data.current_price.price_per_kwh, Rat(45, 100))
        /\ hour = 23 => Eq(price_data.current_price.price_per_kwh, Rat(175, 1000))
        /\ hour = 12 => Eq(price_data.current_price.price_per_kwh, Rat(25, 100))
        /\ price_data.current_price.period = TablePeriod(hour)
        /\ price_data.current_price.currency = "EUR"

\* A call at hour 23 has returned the off_peak price.
C3_Witness ==
    /\ price_data # NoValue
    /\ hour = 23
    /\ price_data.current_price.price_per_kwh = Rat(175, 1000)
    /\ price_data.current_price.period = "off_peak"

\* C4: without include_forecast the report has no forecast section, neither
\* header nor lines; with it the section has exactly 8 lines, entries 0..7 of
\* the 24-entry forecast in order, each with the entry's time, price and period.
C4_ForecastSection ==
    result # NoValue =>
        IF request.include_forecast
        THEN /\ Len(result.forecast.header) = 1
             /\ Len(result.forecast.lines) = 8
             /\ Len(price_data.price_forecast) = 24
             /\ \A k \in 1..8 :
                   /\ result.forecast.lines[k].time = price_data.price_forecast[k].time
                   /\ result.forecast.lines[k].price_per_kwh
                          = price_data.price_forecast[k].price_per_kwh
                   /\ result.forecast.lines[k].period = price_data.price_forecast[k].period
                   /\ result.forecast.lines[k].time
                          = <<(HourOf(base_time) + k - 1) % 24, base_time % 60>>
        ELSE /\ result.forecast.header = <<>>
             /\ result.forecast.lines = <<>>

\* Two reports exist in the model's runs: here the one with the section.
C4_Witness ==
    /\ result # NoValue
    /\ request.include_forecast
    /\ Len(result.forecast.lines) = 8
    /\ result.forecast.lines[1].time = <<23, 59>>
    /\ result.forecast.lines[8].time = <<6, 59>>

\* The report of a call with include_forecast false.
C4_WitnessOmitted ==
    /\ result # NoValue
    /\ ~request.include_forecast
    /\ result.forecast.lines = <<>>

HintPrinted ==
    \E k \in DOMAIN output :
        output[k] = "For production, set HOST=0.0.0.0 environment variable"

ErrorReported == \E k \in DOMAIN output : output[k] = "Error starting server"

\* C6: when start-up or the running server raises an exception other than a
\* user interrupt (a PORT that is no number included), the process prints the
\* error with the hint and exits with a non-zero status; after a user
\* interrupt it ends without the error report.
C6_ErrorExitsNonZero ==
    main_pc = "exited" =>
        /\ raised \in {"Exception", "ValueError"} =>
              /\ ErrorReported
              /\ HintPrinted
              /\ exit_status # 0
        /\ raised = "KeyboardInterrupt" => ~ErrorReported /\ ~HintPrinted

\* C7 as stated: after rounding, temp is in [15.0, 25.0), feels_like in
\* [14.0, 26.0) and wind speed in [1.0, 10.0), the upper bounds excluded;
\* humidity is in 40..80 and pressure in 1000..1020.
C7_UpperBoundsExcluded ==
    weather_data # NoValue =>
        /\ Le(Rat(15, 1), weather_data.main.temp)
        /\ Lt(weather_data.main.temp, Rat(25, 1))
        /\ Le(Rat(14, 1), weather_data.main.feels_like)
        /\ Lt(weather_data.main.feels_like, Rat(26, 1))
        /\ Le(Rat(1, 1), weather_data.wind.speed)
        /\ Lt(weather_data.wind.speed, Rat(10, 1))
        /\ weather_data.main.humidity \in 40..80
        /\ weather_data.main.pressure \in 1000..1020

\* C7 amended: after rounding to one decimal place, temp is in [15.0, 25.0],
\* feels_like in [14.0, 26.0] and wind speed in [1.0, 10.0], the upper bounds
\* included (a sample within 0.05 of the upper bound rounds onto it); humidity
\* is an integer in 40..80 and pressure an integer in 1000..1020.
C7_RangesAfterRounding ==
    weather_data # NoValue =>
        /\ weather_data.main.temp.d = 10
        /\ weather_data.main.temp.n \in 150..250
        /\ weather_data.main.feels_like.d = 10
        /\ weather_data.main.feels_like.n \in 140..260
        /\ weather_data.wind.speed.d = 10
        /\ weather_data.wind.speed.n \in 10..100
        /\ weather_data.main.humidity \in 40..80
        /\ weather_data.main.pressure \in 1000..1020

\* A reading whose temperature was rounded up to 25.0.
C7_Witness ==
    /\ weather_data # NoValue
    /\ weather_data.main.temp = Rat(250, 10)

\* C8: for every temperature from 15.0 to 25.0 in steps of 0.1, the heating
\* recommendation is "Increase" below 18, "Maintain" from 18 up to but not
\* including 22, and "Decrease" from 22 on: 16.0 gives Increase, 18.0 and 20.0
\* Maintain, 22.0 and 23.0 Decrease.
C8_Heating ==
    weather_result # NoValue =>
        LET tenths == weather_data.main.temp.n
            heating == weather_result.heating
        IN  /\ weather_data.main.temp.d = 10
            /\ weather_result.temperature = weather_data.main.temp
            /\ heating \in {"Increase", "Maintain", "Decrease"}
            /\ tenths <= 179 <=> heating = "Increase"
            /\ tenths \in 180..219 <=> heating = "Maintain"
            /\ tenths >= 220 <=> heating = "Decrease"
            /\ tenths = 160 => heating = "Increase"
            /\ tenths \in {180, 200} => heating = "Maintain"
            /\ tenths \in {220, 230} => heating = "Decrease"

\* A report for 18.0 degrees, the boundary of "Maintain".
C8_Witness ==
    /\ weather_result # NoValue
    /\ weather_data.main.temp = Rat(180, 10)
    /\ weather_result.heating = "Maintain"

HighCost == "High cost - consider energy saving"

LowCost == "Low cost - good time for energy-intensive tasks"

\* C9: in a peak hour the report's cost impact is the high-cost text and its
\* smart action "Delay washing/heating"; in an off_peak hour the low-cost text
\* and "Good time for appliances"; in a standard hour "Standard cost" and
\* "Normal usage".  No report pairs high cost with another action than the
\* peak one, or low cost with another than the off_peak one.
C9_RecommendationsAgree ==
    result # NoValue =>
        /\ hour \in PeakHours =>
              /\ result.cost_impact = HighCost
              /\ result.smart_actions = "Delay washing/heating"
        /\ hour \in OffPeakHours =>
              /\ result.cost_impact = LowCost
              /\ result.smart_actions = "Good time for appliances"
        /\ hour \in StandardHours =>
              /\ result.cost_impact = "Standard cost"
              /\ result.smart_actions = "Normal usage"
        /\ result.cost_impact = HighCost <=> result.smart_actions = "Delay washing/heating"
        /\ result.cost_impact = LowCost <=> result.smart_actions = "Good time for appliances"

\* A report of a peak hour.
C9_Witness ==
    /\ result # NoValue
    /\ hour = 17
    /\ result.cost_impact = HighCost
    /\ result.smart_actions = "Delay washing/heating"

\* C10: in one call of get_mock_energy_prices, current_price has the period
\* and the price of forecast entry 0, also when the clock advances between
\* the read that sets the hour and the read that sets the base time.
C10_CurrentAgreesWithEntry0 ==
    price_data # NoValue =>
        /\ price_data.current_price.period = price_data.price_forecast[1].period
        /\ Eq(price_data.current_price.price_per_kwh,
              price_data.price_forecast[1].price_per_kwh)

====
